---------------------------- MODULE Spec2Model ----------------------------
(***************************************************************************)
(* A model of the binary protocol layer of gatk-bwamem-jni                 *)
(* (src/main/c/jnibwa.c): the index image container (build, open, close),  *)
(* the alignment record codec (fmt_BAMish / bufLen), the batch encoder     *)
(* (jnibwa_createAlignments) and the contig directory encoder              *)
(* (jnibwa_getRefContigNames).                                             *)
(*                                                                         *)
(* Four specifications share the variables:                                *)
(*   SpecImage   - the image file on disk, Build / Open / Close            *)
(*   SpecCodec   - one alignment list, encoded then measured               *)
(*   SpecBatch   - a batch of sequences through jnibwa_createAlignments    *)
(*   SpecContigs - the contig directory buffer                             *)
(***************************************************************************)
EXTENDS Integers, Sequences, FiniteSets, TLC

VARIABLES
    disk,       \* the image file at imgName: [size, data, footer]
    built,      \* l_mem / mem of the index the image on disk was built from
    tampered,   \* the file was modified after jnibwa_createIndexFile wrote it
    handle,     \* the bwaidx_t jnibwa_openIndex handed out: [live, l_mem, mapLen]
    mapped,     \* byte lengths of the live mmap regions of this process
    ret,        \* what the last image operation returned
    alist,      \* the alignment list (mem_aln_t[]) of the codec specification
    mate,       \* the mate's alignment (m) handed to fmt_BAMish
    which,      \* how many records of alist fmt_BAMish has formatted
    stream,     \* the kstring fmt_BAMish appended to
    measured,   \* bufLen's answer for stream
    sams,       \* per sequence: pSeq1->sam as the engine left it
    heap,       \* per sequence: how often free() was called on its sam buffer
    batch,      \* what jnibwa_createAlignments returned
    contigs,    \* pIdx->bns->anns: the contig names
    dir         \* what jnibwa_getRefContigNames returned

imageVars  == <<disk, built, tampered, handle, mapped, ret>>
codecVars  == <<alist, mate, which, stream, measured>>
batchVars  == <<sams, heap, batch>>
contigVars == <<contigs, dir>>
vars == <<disk, built, tampered, handle, mapped, ret, alist, mate, which, stream,
          measured, sams, heap, batch, contigs, dir>>

(***************************************************************************)
(* Bounds of the model.                                                    *)
(***************************************************************************)
MaxLen == 7          \* longest index payload (l_mem) Build is given
MaxAln == 2          \* most alignments the engine reports for one sequence
MaxTag == 5          \* longest MD or XA string
MaxSeqs == 2         \* most sequences in one batch
MaxBatchAln == 1     \* most alignments of one sequence of a batch
MaxContigs == 3      \* most contigs in the annotation table
MaxName == 2         \* longest contig name

(***************************************************************************)
(* Small helpers.                                                          *)
(***************************************************************************)
Min(a, b) == IF a < b THEN a ELSE b

RECURSIVE SumSeq(_)
SumSeq(s) == IF s = <<>> THEN 0 ELSE Head(s) + SumSeq(Tail(s))

RECURSIVE Flatten(_)
Flatten(ss) == IF ss = <<>> THEN <<>> ELSE Head(ss) \o Flatten(Tail(ss))

(***************************************************************************)
(* Image container: constants.                                             *)
(***************************************************************************)
\* sizeof(image_footer_t): 8 + 8 + 40 + 1 + 7
FooterSize == 64

\* static char BWA_IDX_ID[] = "BWAINDX", as bytes
BWA_IDX_ID == <<66, 87, 65, 73, 78, 68, 88>>

\* bwa/bwa_commit.h: the 40 bytes naming the running build
BWA_COMMIT == "commit-of-this-build"

\* a producer_version of some other build
OTHER_COMMIT == "commit-of-another-build"

\* what an indeterminate read yields when it yields anything
GARBAGE == "<indeterminate>"

\* bigAdler32 hands zlib at most 1L<<30 bytes at a time
ChunkMax == 1073741824

\* zlib's BASE: the largest prime below 65536
AdlerBase == 65521

\* the page size munmap rounds lengths up to
PageSize == 4096

Byte == {0, 1, 255}

NoFooter == [image_len |-> -1, crc |-> -1, bwa_version |-> "", pad_len |-> -1, id |-> <<>>]
NoFile   == [size |-> -1, data |-> <<>>, footer |-> NoFooter]
NoHandle == [live |-> FALSE, l_mem |-> 0, mapLen |-> 0]
NoMsg    == [fmt |-> "", s1 |-> "", s2 |-> "", s3 |-> ""]
NoRet    == [op |-> "none", st |-> "none", err |-> "", msg |-> NoMsg,
             mmaps |-> <<>>, munmaps |-> <<>>, afterUnmap |-> <<>>,
             file |-> NoFile, ignoreVersion |-> FALSE, compareCRC |-> FALSE,
             fault |-> "none"]

(***************************************************************************)
(* getPadding: (8UL - (len & 7UL)) & 7UL.  len is a uint64_t, so len & 7   *)
(* is the residue of len modulo 8 also for a wrapped (negative) length.    *)
(***************************************************************************)
\* a padding that forgets the final & 7: 8 for a length that needs none
getPadding_Wrong(len) == 8 - (len % 8)

getPadding(len) == (8 - (len % 8)) % 8

(***************************************************************************)
(* zlib's adler32(adler, buf, len): a and b are the low and high 16 bits.  *)
(***************************************************************************)
RECURSIVE adler32(_, _)
adler32(adler, buf) ==
    IF buf = <<>> THEN adler
    ELSE LET a  == ((adler % 65536) + Head(buf)) % AdlerBase
             b  == ((adler \div 65536) + a) % AdlerBase
         IN  adler32(b * 65536 + a, Tail(buf))

\* a checksum that forgets the bytes and keeps only their number
bigAdler32_LenOnly(buf, totLen) == 1 + totLen

(***************************************************************************)
(* bigAdler32(buf, totLen): adler32(0,0,0) is 1; then chunks of at most    *)
(* 1<<30 bytes, chained.                                                   *)
(***************************************************************************)
RECURSIVE bigAdler32From(_, _, _)
bigAdler32From(crc, buf, totLen) ==
    IF totLen = 0 THEN crc
    ELSE LET len == Min(totLen, ChunkMax)
         IN  bigAdler32From(adler32(crc, SubSeq(buf, 1, len)),
                            SubSeq(buf, len + 1, Len(buf)), totLen - len)

bigAdler32(buf, totLen) == bigAdler32From(1, buf, totLen)

(***************************************************************************)
(* createErrorMessage(fmt, name, err): sprintf(buf, fmt, name, err).  A    *)
(* message is kept as its format and the strings that fill its first,      *)
(* second and third %s.  sprintf is handed two strings, so a third %s (only *)
(* the version format holds one) reads an argument that was never passed:  *)
(* junk stands for what that read yields.  A null name or err is "".       *)
(***************************************************************************)
FMT_VERSION == "Image file %s was created by a different version of bwa-mem: creator=%s, current=%s"

createErrorMessage(fmt, name, err, junk) ==
    [fmt |-> fmt, s1 |-> name, s2 |-> err,
     s3 |-> IF fmt = FMT_VERSION THEN junk ELSE ""]

(***************************************************************************)
(* The image file.  A file of at least FooterSize bytes is its bytes       *)
(* before the footer (data: payload, then padding) and its last 64 bytes   *)
(* read as an image_footer_t.  Of a shorter file, or one whose size is no  *)
(* multiple of 8, only the size is kept: jnibwa_openIndex reads nothing    *)
(* else of it.                                                             *)
(***************************************************************************)
ShortFile(n) == [size |-> n, data |-> <<>>, footer |-> NoFooter]

\* the index payloads jnibwa_createIndexFile is given (pIdx->mem, l_mem)
Payloads == {[i \in 1..n |-> 0] : n \in 0..MaxLen} \cup {[i \in 1..n |-> i % 256] : n \in 0..MaxLen}

BuildFaults == {"none", "load", "open", "write_payload", "write_padding", "write_footer", "close"}

\* a build that stores no padding count in the footer
FooterOf_NoPad(mem) ==
    [image_len |-> Len(mem) + FooterSize + getPadding(Len(mem)),
     crc |-> bigAdler32(mem, Len(mem)),
     bwa_version |-> BWA_COMMIT, pad_len |-> 0, id |-> BWA_IDX_ID]

\* lines 177-182: the footer of the image of mem
FooterOf(mem) ==
    [image_len |-> Len(mem) + FooterSize + getPadding(Len(mem)),
     crc |-> bigAdler32(mem, Len(mem)),
     bwa_version |-> BWA_COMMIT, pad_len |-> getPadding(Len(mem)), id |-> BWA_IDX_ID]

BuildRet(st, err, msg, fault) ==
    [NoRet EXCEPT !.op = "build", !.st = st, !.err = err, !.msg = msg, !.fault = fault]

(***************************************************************************)
(* jnibwa_createIndexFile over the payload mem.  fault names the call that *)
(* fails, short whether the failing write() stored all but one of its      *)
(* bytes or none.  Yields the file left on disk and what is returned.      *)
(***************************************************************************)
jnibwa_createIndexFile(old, mem, fault, short) ==
    LET l_mem   == Len(mem)
        padding == getPadding(l_mem)
        cut(n)  == IF short /\ n > 0 THEN n - 1 ELSE 0
    IN
    IF fault = "load" THEN
        [file |-> old, ok |-> FALSE,
         ret |-> BuildRet("err", "E_LOAD", createErrorMessage("BWA unable to load index files for %s", "refName", "", ""), fault)]
    ELSE IF fault = "open" THEN
        [file |-> old, ok |-> FALSE,
         ret |-> BuildRet("err", "E_OPEN", createErrorMessage("Failed to open %s for writing: %s.", "imgName", "errno", ""), fault)]
    ELSE IF l_mem > 0 /\ fault = "write_payload" THEN
        [file |-> ShortFile(cut(l_mem)), ok |-> FALSE,
         ret |-> BuildRet("err", "E_WRITE", createErrorMessage("Failed to write %s: %s.", "imgName", "errno", ""), fault)]
    ELSE IF padding > 0 /\ fault = "write_padding" THEN
        [file |-> ShortFile(l_mem + cut(padding)), ok |-> FALSE,
         ret |-> BuildRet("err", "E_WRITE", createErrorMessage("Failed to write %s: %s.", "imgName", "errno", ""), fault)]
    ELSE IF fault = "write_footer" THEN
        [file |-> ShortFile(l_mem + padding + cut(FooterSize)), ok |-> FALSE,
         ret |-> BuildRet("err", "E_WRITE", createErrorMessage("Failed to write %s: %s.", "imgName", "errno", ""), fault)]
    ELSE
        LET f == [size |-> l_mem + padding + FooterSize,
                  \* the padding is the head of the literal, which ends in a 0
                  data |-> mem \o SubSeq(Append(BWA_IDX_ID, 0), 1, padding),
                  footer |-> FooterOf(mem)]
        IN  IF fault = "close" THEN
                [file |-> f, ok |-> FALSE,
                 ret |-> BuildRet("err", "E_CLOSE", createErrorMessage("Failed to close %s: %s.", "imgName", "errno", ""), fault)]
            ELSE [file |-> f, ok |-> TRUE, ret |-> BuildRet("ok", "", NoMsg, fault)]

(***************************************************************************)
(* What happens where the C code has no defined meaning.  On the version   *)
(* mismatch path the footer is written and read after munmap (lines 231-   *)
(* 234) and a third %s is formatted with no argument: the process may die  *)
(* (crash), or the reads yield the stale bytes or anything else.  With a   *)
(* footer pad_len beyond the bytes before the footer, imageSize is         *)
(* negative and bigAdler32 runs off the mapping (oob).                     *)
(***************************************************************************)
UBOutcomes ==
    {[crash |-> TRUE, s1 |-> "", s3 |-> "", oob |-> "crash"]} \cup
    [crash : {FALSE}, s1 : {"stale", GARBAGE}, s3 : {GARBAGE, BWA_COMMIT},
     oob : {"mismatch"}] \cup
    {[crash |-> FALSE, s1 |-> "stale", s3 |-> GARBAGE, oob |-> "match"]}

OpenFaults == {"none", "open", "fstat", "mmap", "close", "calloc", "malloc"}

OpenRet(f, ignoreVersion, compareCRC, fault, st, err, msg, mmaps, munmaps, afterUnmap) ==
    [op |-> "open", st |-> st, err |-> err, msg |-> msg,
     mmaps |-> mmaps, munmaps |-> munmaps, afterUnmap |-> afterUnmap,
     file |-> f, ignoreVersion |-> ignoreVersion, compareCRC |-> compareCRC,
     fault |-> fault]

\* line 241: int64_t imageSize = statBuf.st_size - sizeof(image_footer_t) - pFooter->pad_len
ImageSize(f) == f.size - FooterSize - f.footer.pad_len

\* an Open that compares nothing of the version
VersionDiffers_Never(f, ignoreVersion) == FALSE

\* line 230: !ignoreVersion && memcmp(pFooter->bwa_version, BWA_COMMIT, 40)
VersionDiffers(f, ignoreVersion) == ~ignoreVersion /\ f.footer.bwa_version # BWA_COMMIT

\* an Open that returns the version error without unmapping
VersionUnmaps_Leak(f) == <<>>

\* line 231: munmap(mem, statBuf.st_size)
VersionUnmaps(f) == <<f.size>>

(***************************************************************************)
(* jnibwa_openIndex(imgName, ignoreVersion, compareCRC) on the file f.     *)
(* fault names the system call that fails (the record keeps it when the    *)
(* call was reached), ub the outcome of the undefined steps.  Yields the returned record and the handle (pIdx) on success.    *)
(* mmaps and munmaps list the lengths passed to mmap and munmap.           *)
(***************************************************************************)
jnibwa_openIndex(f, ignoreVersion, compareCRC, fault, ub) ==
    LET R(st, err, msg, mm, um, au) ==
            [ret |-> OpenRet(f, ignoreVersion, compareCRC, "none", st, err, msg, mm, um, au),
             handle |-> NoHandle]
        F(err, msg, mm, um) ==
            [ret |-> OpenRet(f, ignoreVersion, compareCRC, fault, "err", err, msg, mm, um, <<>>),
             handle |-> NoHandle]
        E(err, fmt, mm, um) == R("err", err, createErrorMessage(fmt, "imgName", "", ""), mm, um, <<>>)
        M == <<f.size>>
    IN
    IF f = NoFile \/ fault = "open" THEN
        F("E_OPEN", createErrorMessage("Failed to open %s: %s.", "imgName", "errno", ""), <<>>, <<>>)
    ELSE IF fault = "fstat" THEN
        F("E_STAT", createErrorMessage("Can't stat %s: %s.", "imgName", "errno", ""), <<>>, <<>>)
    ELSE IF f.size % 8 # 0 THEN
        E("E_DIV8", "Image file %s size is not divisible by 8.", <<>>, <<>>)
    ELSE IF f.size < FooterSize THEN
        E("E_SMALL", "Image file %s size is way too small.", <<>>, <<>>)
    ELSE IF fault = "mmap" THEN
        F("E_MMAP", createErrorMessage("Can't memory map %s: %s.", "imgName", "errno", ""), <<>>, <<>>)
    ELSE IF fault = "close" THEN
        F("E_CLOSE", createErrorMessage("Can't close %s: %s.", "imgName", "errno", ""), M, M)
    ELSE IF f.footer.id # BWA_IDX_ID THEN
        E("E_ID", "Image file %s corrupt -- incorrect ID string.", M, M)
    ELSE IF f.footer.image_len # f.size THEN
        E("E_LEN", "Image file %s size does not match its size at creation.", M, M)
    ELSE IF VersionDiffers(f, ignoreVersion) THEN
        \* munmap, then pFooter->pad_len = 0, then the message is formatted
        \* from pFooter->bwa_version: both touch the region just unmapped
        IF ub.crash THEN
            R("crash", "E_VERSION", NoMsg, M, VersionUnmaps(f), <<"write pad_len">>)
        ELSE
            R("err", "E_VERSION",
              createErrorMessage(FMT_VERSION,
                                 IF ub.s1 = "stale" THEN f.footer.bwa_version ELSE ub.s1,
                                 BWA_COMMIT, ub.s3),
              M, VersionUnmaps(f), <<"write pad_len", "read bwa_version">>)
    ELSE IF fault = "calloc" THEN
        F("E_CALLOC", createErrorMessage("Can't allocate even a tiny bit of memory.", "", "", ""), M, M)
    ELSE
        LET imageSize == ImageSize(f)
            defined   == imageSize >= 0
            crcOk     == IF defined THEN bigAdler32(f.data, imageSize) = f.footer.crc
                         ELSE ub.oob = "match"
        IN
        IF compareCRC /\ ~defined /\ ub.oob = "crash" THEN
            R("crash", "E_CRC", NoMsg, M, <<>>, <<>>)
        ELSE IF compareCRC /\ ~crcOk THEN
            E("E_CRC", "Image file %s corrupt -- inconsistent CRC.", M, M)
        ELSE IF fault = "malloc" THEN
            F("E_MALLOC", createErrorMessage("Can't allocate even a tiny bit of memory.", "", "", ""), M, M)
        ELSE
            [ret |-> OpenRet(f, ignoreVersion, compareCRC, "none", "ok", "", NoMsg, M, <<>>, <<>>),
             handle |-> [live |-> TRUE, l_mem |-> imageSize, mapLen |-> f.size]]

(***************************************************************************)
(* The effect of munmap(addr, len) on the live regions: the kernel frees   *)
(* whole pages, so a length is rounded up to a multiple of the page size.  *)
(***************************************************************************)
Pages(n) == (n + PageSize - 1) \div PageSize

RECURSIVE Unmap(_, _)
Unmap(regions, lens) ==
    IF lens = <<>> \/ regions = <<>> THEN regions
    ELSE IF Pages(Head(lens)) >= Pages(Head(regions))
         THEN Unmap(Tail(regions), Tail(lens))
         ELSE Unmap(<<Head(regions) - Pages(Head(lens)) * PageSize>> \o Tail(regions), Tail(lens))

(***************************************************************************)
(* jnibwa_destroyIndex(pIdx).                                              *)
(***************************************************************************)
jnibwa_destroyIndex(h, fault) ==
    LET memLen == h.l_mem + getPadding(h.l_mem) + FooterSize
    IN  [NoRet EXCEPT !.op = "close",
                      !.st = IF fault = "munmap" THEN "err" ELSE "ok",
                      !.err = IF fault = "munmap" THEN "E_MUNMAP" ELSE "",
                      !.msg = IF fault = "munmap"
                              THEN createErrorMessage("Can't unmap memory: %s.", "errno", "", "")
                              ELSE NoMsg,
                      !.munmaps = IF fault = "munmap" THEN <<>> ELSE <<memLen>>,
                      !.fault = fault]

(***************************************************************************)
(* What somebody else may do to the image file between Build and Open:     *)
(* change a byte before the footer, a footer field, or the file's length.  *)
(***************************************************************************)
BAD_ID == <<66, 87, 65, 73, 78, 68, 89>>

PadLens == {0, 1, 8, MaxLen + 2}

Edits(f) ==
    [k : {"flip"}, i : 1..Len(f.data), v : Byte] \cup
    [k : {"version", "magic", "image_len", "crc"}, i : {0}, v : {0}] \cup
    [k : {"pad_len"}, i : {0}, v : PadLens] \cup
    [k : {"resize"}, i : {0}, v : {0, FooterSize - 8, f.size + 1}]

\* a second change, to a footer field
FooterEdits == [k : {"none", "version", "magic", "image_len", "crc"}, i : {0}, v : {0}]

ApplyEdit(f, e) ==
    IF f.footer = NoFooter \/ e.k = "none" THEN f
    ELSE IF e.k = "flip" THEN
        IF e.i <= Len(f.data) THEN [f EXCEPT !.data[e.i] = e.v] ELSE f
    ELSE IF e.k = "version"   THEN [f EXCEPT !.footer.bwa_version = OTHER_COMMIT]
    ELSE IF e.k = "magic"     THEN [f EXCEPT !.footer.id = BAD_ID]
    ELSE IF e.k = "image_len" THEN [f EXCEPT !.footer.image_len = f.size + 8]
    ELSE IF e.k = "crc"       THEN [f EXCEPT !.footer.crc = f.footer.crc + 1]
    ELSE IF e.k = "pad_len"   THEN [f EXCEPT !.footer.pad_len = e.v]
    ELSE ShortFile(e.v)

(***************************************************************************)
(* The actions of the image container.  The caller builds an image, the    *)
(* file may then be changed, the caller opens it once and closes what it   *)
(* opened; after a close it may build again over the old file.             *)
(***************************************************************************)
OtherThanImage == UNCHANGED <<codecVars, batchVars, contigVars>>

Build ==
    /\ ~handle.live
    /\ mapped = <<>>
    /\ ret.op \in {"none", "close"}
    /\ \E mem \in Payloads, fault \in BuildFaults, short \in BOOLEAN :
         LET r == jnibwa_createIndexFile(disk, mem, fault, short)
         IN  /\ disk' = r.file
             /\ ret' = r.ret
             \* before open(O_TRUNC) succeeds the old file stays as it was
             /\ IF fault \in {"load", "open"}
                THEN UNCHANGED <<built, tampered>>
                ELSE /\ built' = [ok |-> r.ok, mem |-> IF r.ok THEN mem ELSE <<>>]
                     /\ tampered' = FALSE
    /\ UNCHANGED <<handle, mapped>>
    /\ OtherThanImage

Tamper ==
    /\ ret.op = "build"
    /\ ~tampered
    /\ disk.footer # NoFooter
    /\ \E e1 \in Edits(disk), e2 \in FooterEdits :
         /\ e1.k \in {"flip", "resize"} => e2.k = "none"
         /\ ApplyEdit(ApplyEdit(disk, e1), e2) # disk
         /\ disk' = ApplyEdit(ApplyEdit(disk, e1), e2)
    /\ tampered' = TRUE
    /\ UNCHANGED <<built, handle, mapped, ret>>
    /\ OtherThanImage

Open ==
    /\ ~handle.live
    /\ mapped = <<>>
    /\ ret.op = "build"
    /\ \E ignoreVersion \in BOOLEAN, compareCRC \in BOOLEAN,
          fault \in OpenFaults, ub \in UBOutcomes :
         LET r == jnibwa_openIndex(disk, ignoreVersion, compareCRC, fault, ub)
         IN  /\ ret' = r.ret
             /\ handle' = r.handle
             \* a process that dies takes its mappings with it
             /\ mapped' = IF r.ret.st = "crash" THEN <<>>
                          ELSE Unmap(mapped \o r.ret.mmaps, r.ret.munmaps)
    /\ UNCHANGED <<disk, built, tampered>>
    /\ OtherThanImage

Close ==
    /\ handle.live
    /\ \E fault \in {"none", "munmap"} :
         LET r == jnibwa_destroyIndex(handle, fault)
         IN  /\ ret' = r
             /\ mapped' = Unmap(mapped, r.munmaps)
    /\ handle' = NoHandle
    /\ UNCHANGED <<disk, built, tampered>>
    /\ OtherThanImage

NoBuilt == [ok |-> FALSE, mem |-> <<>>]

InitImage ==
    /\ disk = NoFile
    /\ built = NoBuilt
    /\ tampered = FALSE
    /\ handle = NoHandle
    /\ mapped = <<>>
    /\ ret = NoRet

NoMate  == [rid |-> -1, pos |-> -1, is_rev |-> FALSE, cigar |-> <<>>]
NoBatch == [st |-> "none", ran |-> FALSE, n |-> 0, buf |-> <<>>, bufSize |-> 0]
NoDir   == [st |-> "none", buf |-> <<>>, bufSize |-> 0, written |-> 0]

IdleCodec ==
    /\ alist = <<>>
    /\ mate = NoMate
    /\ which = 0
    /\ stream = <<>>
    /\ measured = -1

IdleBatch ==
    /\ sams = <<>>
    /\ heap = <<>>
    /\ batch = NoBatch

IdleContigs ==
    /\ contigs = <<>>
    /\ dir = NoDir

Init == InitImage /\ IdleCodec /\ IdleBatch /\ IdleContigs

NextImage == Build \/ Tamper \/ Open \/ Close

SpecImage == Init /\ [][NextImage]_vars

(***************************************************************************)
(* Properties of the image container, stated over the record the last Open *)
(* returned (ret) and the file it was given (ret.file).                    *)
(***************************************************************************)
Opened == ret.op = "open"

\* Open ran with every system call and allocation it made succeeding
NoFault == ret.fault = "none"

\* the six validations of the specification, of the file Open was given
SizeDiv8(f)      == f.size % 8 = 0
SizeHasFooter(f) == f.size >= FooterSize
MagicOk(f)       == f.footer.id = BWA_IDX_ID
LenOk(f)         == f.footer.image_len = f.size
VersionOk(f)     == f.footer.bwa_version = BWA_COMMIT
\* the checksum range [0, image_len - footer_size - pad_len) lies in the file
RangeOk(f)       == 0 <= f.size - FooterSize - f.footer.pad_len
ChecksumOk(f)    == bigAdler32From(1, f.data, f.size - FooterSize - f.footer.pad_len) = f.footer.crc

\* the error of the first validation, in the specification's order, that the
\* file does not pass ("" when it passes all that are enabled)
FirstFailure(f, ignoreVersion, compareCRC) ==
    IF ~SizeDiv8(f) THEN "E_DIV8"
    ELSE IF ~SizeHasFooter(f) THEN "E_SMALL"
    ELSE IF ~MagicOk(f) THEN "E_ID"
    ELSE IF ~LenOk(f) THEN "E_LEN"
    ELSE IF ~ignoreVersion /\ ~VersionOk(f) THEN "E_VERSION"
    ELSE IF compareCRC /\ ~ChecksumOk(f) THEN "E_CRC"
    ELSE ""

\* the checksum validation is reached with a range outside the file
ChecksumUndefined(f, ignoreVersion, compareCRC) ==
    /\ SizeDiv8(f) /\ SizeHasFooter(f) /\ MagicOk(f) /\ LenOk(f)
    /\ ignoreVersion \/ VersionOk(f)
    /\ compareCRC /\ ~RangeOk(f)

(* C2: Open validates in the fixed order size multiple of 8, size at least *)
(* the footer size, magic, image_len, version (unless ignore_version),     *)
(* checksum (only if verify_checksum), and stops at the first validation   *)
(* that does not hold; it succeeds exactly when none fails, so a wrong     *)
(* version alone is accepted with ignore_version and a wrong checksum      *)
(* alone without verify_checksum.  (Open with no failing system call, on   *)
(* an existing file whose checksum range lies in the file.)                *)
C2_ValidationOrder ==
    (/\ Opened /\ NoFault /\ ret.file # NoFile
     /\ ~ChecksumUndefined(ret.file, ret.ignoreVersion, ret.compareCRC))
    => /\ ret.err = FirstFailure(ret.file, ret.ignoreVersion, ret.compareCRC)
       /\ (ret.st = "ok") <=> (FirstFailure(ret.file, ret.ignoreVersion, ret.compareCRC) = "")

\* a file with a wrong image_len, a wrong version and a wrong checksum is
\* refused for its image_len
C2_Witness ==
    /\ Opened /\ NoFault /\ ret.st = "err" /\ ret.err = "E_LEN"
    /\ ~VersionOk(ret.file) /\ ~ret.ignoreVersion
    /\ ret.compareCRC

\* a file whose only fault is its version is opened when the version is ignored
C2_WitnessIgnored ==
    /\ Opened /\ ret.st = "ok" /\ ret.ignoreVersion /\ ~VersionOk(ret.file)

(* C3: every Open that returns an error after mmap succeeded has called    *)
(* munmap exactly once, on the whole region, and leaves no mapping; an     *)
(* Open that returns an error before mmap leaves none either; a successful *)
(* Open leaves exactly the one mapping of the whole file.                  *)
C3_UnmapOnFailure ==
    Opened =>
       /\ ret.st = "err" => /\ ret.munmaps = ret.mmaps
                            /\ Len(ret.mmaps) <= 1
                            /\ mapped = <<>>
       /\ ret.st = "ok" => /\ ret.mmaps = <<ret.file.size>>
                           /\ ret.munmaps = <<>>
                           /\ mapped = <<ret.file.size>>

\* the version error was returned and the region was unmapped before
C3_Witness ==
    /\ Opened /\ ret.st = "err" /\ ret.err = "E_VERSION"
    /\ ret.mmaps = <<ret.file.size>> /\ ret.munmaps = <<ret.file.size>>

\* the image jnibwa_createIndexFile writes for the payload mem
ImageOf(mem) == jnibwa_createIndexFile(NoFile, mem, "none", FALSE).file

(* C4: round trip.  The untouched file of a successful Build is accepted   *)
(* by Open with verify_checksum and without ignore_version, and the        *)
(* payload handed to the engine has the length, and the bytes, of the      *)
(* payload Build serialized.                                               *)
C4_RoundTrip ==
    (/\ Opened /\ NoFault /\ built.ok /\ ~tampered
     /\ ret.compareCRC /\ ~ret.ignoreVersion)
    => /\ ret.st = "ok"
       /\ handle.live
       /\ handle.l_mem = Len(built.mem)
       /\ SubSeq(ret.file.data, 1, handle.l_mem) = built.mem

\* a payload that needed padding made the round trip
C4_Witness ==
    /\ Opened /\ ret.st = "ok" /\ built.ok /\ ~tampered
    /\ ret.compareCRC /\ ~ret.ignoreVersion
    /\ Len(built.mem) % 8 = 5
    /\ handle.l_mem = 5

\* f is the image of mem with exactly one payload byte changed
OneByteChanged(f, mem) ==
    \E i \in 1..Len(mem) :
        /\ Len(f.data) = Len(ImageOf(mem).data)
        /\ f.data[i] # mem[i]
        /\ f = [ImageOf(mem) EXCEPT !.data[i] = f.data[i]]

(* C5: checksum sensitivity.  A built image with one payload byte changed  *)
(* is refused with the inconsistent-checksum error by Open with            *)
(* verify_checksum, and accepted by Open without it.                       *)
C5_ChecksumSensitivity ==
    (/\ Opened /\ NoFault /\ built.ok /\ tampered
     /\ OneByteChanged(ret.file, built.mem))
    => IF ret.compareCRC
       THEN ret.st = "err" /\ ret.err = "E_CRC"
       ELSE ret.st = "ok"

\* the last payload byte of a padded image was changed and Open refused it
C5_Witness ==
    /\ Opened /\ NoFault /\ built.ok /\ tampered /\ ret.compareCRC
    /\ Len(built.mem) = 3
    /\ OneByteChanged(ret.file, built.mem)
    /\ ret.file.data[3] # built.mem[3]
    /\ ret.err = "E_CRC"

(* C6: the version mismatch error carries the image's producer_version in  *)
(* the creator position (the second %s) and the running build's version in *)
(* the current position (the third %s).                                    *)
C6_VersionMessage ==
    (Opened /\ ret.st = "err" /\ ret.err = "E_VERSION")
    => /\ ret.msg.s2 = ret.file.footer.bwa_version
       /\ ret.msg.s3 = BWA_COMMIT

(* C12: padding invariant.  For the payload length L of every successful   *)
(* Build, pad_len = getPadding(L) satisfies 0 <= pad_len < 8 and           *)
(* (L + pad_len) mod 8 = 0; the file written has L + pad_len + 64 bytes,   *)
(* pad_len of them between payload and footer, and its footer holds that   *)
(* total as image_len and pad_len as the padding written.                  *)
C12_PaddingInvariant ==
    (built.ok /\ ~tampered) =>
        LET L       == Len(built.mem)
            pad_len == getPadding(L)
        IN  /\ 0 <= pad_len /\ pad_len < 8
            /\ (L + pad_len) % 8 = 0
            /\ disk.size = L + pad_len + FooterSize
            /\ disk.size % 8 = 0
            /\ Len(disk.data) = L + pad_len
            /\ SubSeq(disk.data, 1, L) = built.mem
            /\ disk.footer.image_len = disk.size
            /\ disk.footer.pad_len = Len(disk.data) - L
            /\ disk.footer.id = BWA_IDX_ID

\* Build has just written the image of a payload of 5 bytes: 3 bytes of
\* padding, 72 bytes in all
C12_Witness ==
    /\ ret.op = "build" /\ ret.st = "ok" /\ built.ok /\ ~tampered
    /\ Len(built.mem) = 5
    /\ disk.footer.pad_len = 3
    /\ disk.size = 72
    /\ disk.footer.image_len = 72

(* C13: within Open, once the mapped region has been unmapped on a failure *)
(* path, nothing of it (the footer fields pad_len and bwa_version          *)
(* included) is read or written before Open returns, and Open never writes *)
(* to the read-only mapping.                                               *)
C13_NoAccessAfterUnmap ==
    (Opened /\ ret.munmaps # <<>>) => ret.afterUnmap = <<>>

\* Close has just returned from a successful munmap of what Open mapped
Closed == ret.op = "close" /\ ret.st = "ok"

(* C14: for every file Open accepts, whatever its footer pad_len holds,    *)
(* the length Close passes to munmap, l_mem + getPadding(l_mem) + 64,      *)
(* equals the length Open mapped, the file size: Open followed by Close    *)
(* releases exactly the region that was mapped.  The file is the one on    *)
(* disk, which nothing changes between Open and Close; files whose pad_len *)
(* exceeds the bytes before the footer are left aside.                     *)
C14_CloseUnmapsWhatOpenMapped ==
    (Closed /\ ImageSize(disk) >= 0) => ret.munmaps = <<disk.size>>

(***************************************************************************)
(* Record codec.  The kstring is kept in 32-bit words: every kput32 and    *)
(* every padded kputsn of fmt_BAMish appends whole words, and bufLen reads *)
(* the buffer as int32_t.  Words are signed (int32_t).                     *)
(***************************************************************************)
\* x & b # 0, for b a power of two and x in two's complement
HasBit(x, b) == (x \div b) % 2 = 1

\* kput32(val, str)
kput32(val, str) == Append(str, val)

\* four bytes as the int32_t a little-endian host reads from them
Pack(b0, b1, b2, b3) ==
    b0 + 256 * b1 + 65536 * b2 + 16777216 * (IF b3 >= 128 THEN b3 - 256 ELSE b3)

(***************************************************************************)
(* kputsn(s, (n+3)&~3, str) of a string of n characters: the characters,   *)
(* its terminating 0 when a byte of padding is copied, and then whatever   *)
(* bytes lie behind the terminator (junk).                                 *)
(***************************************************************************)
PaddedWords(chars, junk) ==
    LET n      == Len(chars)
        padded == ((n + 3) \div 4) * 4
        byte(i) == IF i <= n THEN chars[i] ELSE IF i = n + 1 THEN 0 ELSE junk
    IN  [k \in 1..(padded \div 4) |->
            Pack(byte(4 * k - 3), byte(4 * k - 2), byte(4 * k - 1), byte(4 * k))]

RECURSIVE cigarRefLen(_)
cigarRefLen(pCigar) ==
    IF pCigar = <<>> THEN 0
    ELSE LET lenOp == Head(pCigar)
             op    == lenOp % 16
         IN  (IF op = 0 \/ op = 2 THEN lenOp \div 16 ELSE 0) + cigarRefLen(Tail(pCigar))

\* lines 41-43: (flag | 0x100 if flag & 0x10000) << 16 | (mapq & 0xff), as int32_t
FlagMapQ(p) ==
    LET f   == IF HasBit(p.flag, 65536) /\ ~HasBit(p.flag, 256) THEN p.flag + 256 ELSE p.flag
        low == f % 65536
    IN  (IF low >= 32768 THEN low - 65536 ELSE low) * 65536 + (p.mapq % 256)

\* lines 53-59: op is MIDSH in a mem_aln_t and MIDNSH in a BAM
CigarWords(cigar) ==
    [k \in 1..Len(cigar) |-> IF cigar[k] % 16 > 2 THEN cigar[k] + 1 ELSE cigar[k]]

\* a formatter that emits the plain signed difference, without the bias
Tlen_NoBias(p, m) ==
    IF HasBit(p.flag, 4) \/ p.rid # m.rid THEN 0
    ELSE LET p0 == p.pos + (IF p.is_rev THEN cigarRefLen(p.cigar) - 1 ELSE 0)
             m0 == m.pos + (IF m.is_rev THEN cigarRefLen(m.cigar) - 1 ELSE 0)
         IN  m0 - p0

\* lines 73-86: the template length
Tlen(p, m) ==
    IF HasBit(p.flag, 4) \/ p.rid # m.rid THEN 0
    ELSE LET p0 == p.pos + (IF p.is_rev THEN cigarRefLen(p.cigar) - 1 ELSE 0)
             m0 == m.pos + (IF m.is_rev THEN cigarRefLen(m.cigar) - 1 ELSE 0)
         IN  m0 - p0 + (IF p0 > m0 THEN -1 ELSE IF p0 < m0 THEN 1 ELSE 0)

\* a formatter that writes the mate fields for every paired read
HasMateFields_Paired(flag) == HasBit(flag, 1)

\* (flag & 0x9) == 1, lines 70 and 109
HasMateFields(flag) == HasBit(flag, 1) /\ ~HasBit(flag, 8)

(***************************************************************************)
(* fmt_BAMish(opt, bns, str, s, n, list, which, p, m): the words appended  *)
(* to str for record p, the which-th of n; the first record is preceded by *)
(* the count n.  The MD string lies behind the CIGAR operations, and is    *)
(* looked at only when there are any.                                      *)
(***************************************************************************)
fmt_BAMish(str, n, wh, p, m, junk) ==
    LET s0 == IF wh = 0 THEN kput32(n, str) ELSE str
        s1 == kput32(FlagMapQ(p), s0)
        nMD == IF Len(p.cigar) # 0 THEN Len(p.md) ELSE 0
        nXA == Len(p.XA)
        s2 == IF ~HasBit(p.flag, 4)
              THEN s1 \o <<p.rid, p.pos, p.NM, p.score, p.sub, Len(p.cigar)>>
                      \o CigarWords(p.cigar)
                      \o <<nMD>> \o (IF nMD # 0 THEN PaddedWords(p.md, junk) ELSE <<>>)
                      \o <<nXA>> \o (IF nXA # 0 THEN PaddedWords(p.XA, junk) ELSE <<>>)
              ELSE s1
    IN  IF HasMateFields(p.flag)
        THEN s2 \o <<m.rid, m.pos, Tlen(p, m)>>
        ELSE s2

\* *pBuf at word index i (1-based); a read behind the buffer yields 0
WordAt(pBuf, i) == IF i >= 1 /\ i <= Len(pBuf) THEN pBuf[i] ELSE 0

\* a measure that forgets to round the tag lengths up to whole words
RECURSIVE bufLenFrom_NoRound(_, _, _, _)
bufLenFrom_NoRound(pBuf, i, nAligns, totLen) ==
    IF nAligns <= 0 THEN totLen
    ELSE LET flag  == WordAt(pBuf, i) \div 65536
             isMap == ~HasBit(flag, 4)
             nCig  == WordAt(pBuf, i + 6)
             iMD   == i + 7 + nCig
             nMD   == WordAt(pBuf, iMD) \div 4
             iXA   == iMD + 1 + nMD
             nXA   == WordAt(pBuf, iXA) \div 4
             i1    == IF isMap THEN iXA + 1 + nXA ELSE i + 1
             t1    == totLen + 1 + (IF isMap THEN 8 + nCig + nMD + nXA ELSE 0)
         IN  IF HasMateFields(flag)
             THEN bufLenFrom_NoRound(pBuf, i1 + 3, nAligns - 1, t1 + 3)
             ELSE bufLenFrom_NoRound(pBuf, i1, nAligns - 1, t1)

bufLen_NoRound(pBuf) == bufLenFrom_NoRound(pBuf, 2, WordAt(pBuf, 1), 1)

(***************************************************************************)
(* bufLen(pBuf): the number of words of the stream at pBuf, found by       *)
(* walking it.  i is the position of pBuf, nAligns the records left.       *)
(***************************************************************************)
RECURSIVE bufLenFrom(_, _, _, _)
bufLenFrom(pBuf, i, nAligns, totLen) ==
    IF nAligns <= 0 THEN totLen
    ELSE LET flag  == WordAt(pBuf, i) \div 65536
             isMap == ~HasBit(flag, 4)
             nCig  == WordAt(pBuf, i + 6)
             iMD   == i + 7 + nCig
             nMD   == (WordAt(pBuf, iMD) + 3) \div 4
             iXA   == iMD + 1 + nMD
             nXA   == (WordAt(pBuf, iXA) + 3) \div 4
             i1    == IF isMap THEN iXA + 1 + nXA ELSE i + 1
             t1    == totLen + 1 + (IF isMap THEN 8 + nCig + nMD + nXA ELSE 0)
         IN  IF HasMateFields(flag)
             THEN bufLenFrom(pBuf, i1 + 3, nAligns - 1, t1 + 3)
             ELSE bufLenFrom(pBuf, i1, nAligns - 1, t1)

bufLen(pBuf) == bufLenFrom(pBuf, 2, WordAt(pBuf, 1), 1)

(***************************************************************************)
(* The alignment records the codec is exercised on.                        *)
(***************************************************************************)
Chars(n) == [i \in 1..n |-> 48 + i]

Aln(flag, cigar, nMD, nXA) ==
    [flag |-> flag, mapq |-> 60, rid |-> 1, pos |-> 100, NM |-> 2, score |-> 30,
     sub |-> 7, cigar |-> cigar, md |-> Chars(nMD), XA |-> Chars(nXA),
     is_rev |-> HasBit(flag, 16)]

\* 10M; 5S 10M 3D (soft clip is 3 in a mem_aln_t)
Cigar1 == <<160>>
Cigar3 == <<83, 160, 50>>

\* unmapped: alone, paired with a mapped mate, paired with an unmapped mate
UnmappedAlns == {Aln(f, <<>>, 0, 0) : f \in {4, 5, 13}}

\* mapped and unpaired, over every shape of CIGAR, MD and XA
ShapedAlns ==
    {Aln(0, <<>>, 0, 0)} \cup
    {Aln(0, Cigar1, nMD, 0) : nMD \in 0..MaxTag} \cup
    {Aln(0, Cigar3, MaxTag, nXA) : nXA \in 1..MaxTag}

\* mapped: paired with a mapped mate, with an unmapped mate, and a reverse
\* supplementary hit (0x10000 | 0x800 | 0x10 | 0x1), with bit 15 set as well
FlaggedAlns ==
    {Aln(f, c, 2, x) : f \in {1, 9, 67601, 32769}, c \in {Cigar1}, x \in {0, 3}}

Alns == UnmappedAlns \cup ShapedAlns \cup FlaggedAlns

RECURSIVE SeqsUpTo(_, _)
SeqsUpTo(S, n) ==
    IF n = 0 THEN {<<>>}
    ELSE LET shorter == SeqsUpTo(S, n - 1)
         IN  shorter \cup {Append(q, x) : q \in {r \in shorter : Len(r) = n - 1}, x \in S}

\* the mate: downstream and reverse, on another reference, at this read's
\* own start, and upstream
Mates == {[rid |-> 1, pos |-> 300, is_rev |-> TRUE, cigar |-> Cigar1],
          [rid |-> 2, pos |-> 5, is_rev |-> FALSE, cigar |-> Cigar1],
          [rid |-> 1, pos |-> 100, is_rev |-> FALSE, cigar |-> Cigar1],
          [rid |-> 1, pos |-> 50, is_rev |-> FALSE, cigar |-> Cigar3]}

JunkBytes == {0, 255}

(***************************************************************************)
(* The codec specification: the engine formats a list of n >= 1 records,   *)
(* one call of fmt_BAMish per record, and the stream is then measured.     *)
(***************************************************************************)
OtherThanCodec == UNCHANGED <<imageVars, batchVars, contigVars>>

InitCodec ==
    /\ alist \in SeqsUpTo(Alns, MaxAln) \ {<<>>}
    /\ mate \in Mates
    /\ which = 0
    /\ stream = <<>>
    /\ measured = -1
    /\ InitImage /\ IdleBatch /\ IdleContigs

Format ==
    /\ which < Len(alist)
    /\ \E junk \in JunkBytes :
         stream' = fmt_BAMish(stream, Len(alist), which, alist[which + 1], mate, junk)
    /\ which' = which + 1
    /\ UNCHANGED <<alist, mate, measured>>
    /\ OtherThanCodec

Measure ==
    /\ which = Len(alist)
    /\ measured = -1
    /\ measured' = bufLen(stream)
    /\ UNCHANGED <<alist, mate, which, stream>>
    /\ OtherThanCodec

NextCodec == Format \/ Measure

SpecCodec == InitCodec /\ [][NextCodec]_vars

(* C1: codec agreement.  For every alignment list of n >= 1 records, the   *)
(* number of words bufLen finds by walking the stream equals the number of *)
(* words fmt_BAMish, called once per record, appended to it, the leading   *)
(* count included: measured words * 4 = bytes written.                     *)
C1_CodecAgreement ==
    measured # -1 => /\ measured = Len(stream)
                     /\ measured * 4 = 4 * Len(stream)
                     /\ measured >= 1 + Len(alist)

\* two records, the first mapped with CIGAR, MD and XA strings that need
\* padding, the second paired with mate fields, were formatted and measured
C1_Witness ==
    /\ measured # -1
    /\ Len(alist) = 2
    /\ Len(alist[1].cigar) = 3 /\ Len(alist[1].md) % 4 # 0 /\ Len(alist[1].XA) % 4 # 0
    /\ HasMateFields(alist[2].flag)
    /\ measured = Len(stream)

(***************************************************************************)
(* Template length.  After the which-th call of fmt_BAMish the record last *)
(* formatted is alist[which], and its mate fields, when it has any, are    *)
(* the last three words of the stream.                                     *)
(***************************************************************************)
LastRecord == alist[which]

LastWord == stream[Len(stream)]

\* the coordinate compared: the start, or the end of a reverse-strand read
Coord5(a) == IF a.is_rev THEN a.pos + cigarRefLen(a.cigar) - 1 ELSE a.pos

\* the signed difference plus the bias towards the upstream read
BiasedDifference(p, m) ==
    LET p0 == Coord5(p)
        m0 == Coord5(m)
    IN  (m0 - p0) + (IF p0 < m0 THEN 1 ELSE IF p0 > m0 THEN 0 - 1 ELSE 0)

\* words of the first record's stream when it carries no mate fields
WordsWithoutMate(p) ==
    2 + (IF HasBit(p.flag, 4) THEN 0
         ELSE 8 + Len(p.cigar)
                + (IF Len(p.cigar) # 0 THEN (Len(p.md) + 3) \div 4 ELSE 0)
                + ((Len(p.XA) + 3) \div 4))

(* C11 as stated: for a record of a paired read, the emitted template      *)
(* length is 0 when the mate is unmapped or on a different reference, and  *)
(* otherwise the signed difference m0 - p0 plus the bias +1 / -1.          *)
C11_TemplateLengthAsStated ==
    (which >= 1 /\ HasBit(LastRecord.flag, 1) /\ HasMateFields(LastRecord.flag)) =>
        LastWord = IF HasBit(LastRecord.flag, 8) \/ LastRecord.rid # mate.rid
                   THEN 0
                   ELSE BiasedDifference(LastRecord, mate)

(* C11 amended: a template length is emitted only for a paired read whose  *)
(* mate is mapped (flag & 9 = 1), as the last of three mate words; it is 0 *)
(* when this read is unmapped or the mate is on a different reference, and *)
(* otherwise m0 - p0 plus the bias +1 / -1.  A paired read whose mate is   *)
(* unmapped gets no mate words at all.                                     *)
C11_TemplateLength ==
    which >= 1 =>
        /\ HasMateFields(LastRecord.flag) =>
              /\ Len(stream) >= 5
              /\ stream[Len(stream) - 2] = mate.rid
              /\ stream[Len(stream) - 1] = mate.pos
              /\ LastWord = IF HasBit(LastRecord.flag, 4) \/ LastRecord.rid # mate.rid
                            THEN 0
                            ELSE BiasedDifference(LastRecord, mate)
        /\ (which = 1 /\ HasBit(LastRecord.flag, 1) /\ HasBit(LastRecord.flag, 8)) =>
              Len(stream) = WordsWithoutMate(LastRecord)

\* a reverse-strand paired read whose mate lies upstream on the same
\* reference was formatted: the template length is negative
C11_Witness ==
    /\ which >= 1
    /\ HasMateFields(LastRecord.flag)
    /\ ~HasBit(LastRecord.flag, 4)
    /\ LastRecord.is_rev
    /\ LastRecord.rid = mate.rid
    /\ Coord5(LastRecord) > Coord5(mate)
    /\ LastWord = Coord5(mate) - Coord5(LastRecord) - 1
    /\ LastWord < 0

(***************************************************************************)
(* Batch encoder.  mem_process_seqs (the aligner engine) leaves in each    *)
(* pSeq1->sam either no buffer or the stream fmt_BAMish wrote for that     *)
(* sequence's list of n >= 1 records.                                      *)
(***************************************************************************)
RECURSIVE FormatFrom(_, _, _, _, _)
FormatFrom(str, list, wh, m, junk) ==
    IF wh = Len(list) THEN str
    ELSE FormatFrom(fmt_BAMish(str, Len(list), wh, list[wh + 1], m, junk), list, wh + 1, m, junk)

\* the stream of a whole list: the count, then its records
FormatList(list, m, junk) == FormatFrom(<<>>, list, 0, m, junk)

\* the words of one record, without a count before it
FormatRecord(p, m, junk) == fmt_BAMish(<<>>, 1, 1, p, m, junk)

BatchAlns == {Aln(4, <<>>, 0, 0), Aln(5, <<>>, 0, 0), Aln(0, Cigar1, 0, 0), Aln(1, Cigar1, 2, 3)}

BatchMate == [rid |-> 1, pos |-> 300, is_rev |-> TRUE, cigar |-> Cigar1]

NullSam == [null |-> TRUE, list |-> <<>>, sam |-> <<>>]

\* what the engine may leave for one sequence
EngineAnswers(junk) ==
    {NullSam} \cup
    {[null |-> FALSE, list |-> l, sam |-> FormatList(l, BatchMate, junk)] :
        l \in SeqsUpTo(BatchAlns, MaxBatchAln) \ {<<>>}}

\* memcpy(pResults, pBuf, len*sizeof(int32_t))
CopyWords(pBuf, len) == [k \in 1..len |-> WordAt(pBuf, k)]

\* a fill loop that copies one word less than it measured
CopyOut_Short(answers) ==
    Flatten([i \in 1..Len(answers) |->
                IF answers[i].null THEN <<>>
                ELSE CopyWords(answers[i].sam, bufLen(answers[i].sam) - 1)])

\* lines 328-337: the fill loop
CopyOut(answers) ==
    Flatten([i \in 1..Len(answers) |->
                IF answers[i].null THEN <<>>
                ELSE CopyWords(answers[i].sam, bufLen(answers[i].sam))])

\* lines 319-322: the measuring loop
CountInts(answers) ==
    SumSeq([i \in 1..Len(answers) |->
                IF answers[i].null THEN 0 ELSE bufLen(answers[i].sam)])

(***************************************************************************)
(* jnibwa_createAlignments for nSeqs sequences, the engine answering with  *)
(* answers; fault names the allocation that fails.  Yields what is         *)
(* returned (NULL: st = "null"), the sams the engine left, and how often   *)
(* each was freed.                                                         *)
(***************************************************************************)
jnibwa_createAlignments(answers, fault) ==
    LET nSeqs == Len(answers)
        nInts == CountInts(answers)
    IN
    IF fault = "calloc" THEN
        [batch |-> [st |-> "null", ran |-> FALSE, n |-> nSeqs, buf |-> <<>>, bufSize |-> 0],
         sams |-> <<>>, heap |-> <<>>]
    ELSE IF fault = "malloc" THEN
        \* free(pSeq1Beg); return resultsBeg
        [batch |-> [st |-> "null", ran |-> TRUE, n |-> nSeqs, buf |-> <<>>, bufSize |-> 0],
         sams |-> answers, heap |-> [i \in 1..nSeqs |-> 0]]
    ELSE
        [batch |-> [st |-> "ok", ran |-> TRUE, n |-> nSeqs, buf |-> CopyOut(answers),
                    bufSize |-> nInts * 4],
         sams |-> answers,
         heap |-> [i \in 1..nSeqs |-> IF answers[i].null THEN 0 ELSE 1]]

OtherThanBatch == UNCHANGED <<imageVars, codecVars, contigVars>>

CreateAlignments ==
    /\ batch.st = "none"
    /\ \E junk \in JunkBytes, fault \in {"none", "calloc", "malloc"} :
         \E answers \in SeqsUpTo(EngineAnswers(junk), MaxSeqs) :
            LET r == jnibwa_createAlignments(answers, fault)
            IN  /\ batch' = r.batch
                /\ sams' = r.sams
                /\ heap' = r.heap
    /\ OtherThanBatch

\* Java_..._destroyByteBuffer: the caller frees the buffer it was given
DestroyByteBuffer ==
    /\ batch.st = "ok"
    /\ batch' = [batch EXCEPT !.st = "freed"]
    /\ UNCHANGED <<sams, heap>>
    /\ OtherThanBatch

NextBatch == CreateAlignments \/ DestroyByteBuffer

SpecBatch == Init /\ [][NextBatch]_vars

\* the group of sequence i as the specification lays it out: the count of
\* its alignments, then the records; a sequence without a list has count 0
GroupOf(a, junk) ==
    IF a.null THEN <<0>>
    ELSE <<Len(a.list)>> \o Flatten([k \in 1..Len(a.list) |-> FormatRecord(a.list[k], BatchMate, junk)])

\* the same, a sequence without a list having no group at all
GroupOrNothing(a, junk) == IF a.null THEN <<>> ELSE GroupOf(a, junk)

Returned == batch.st \in {"ok", "freed"}

(* C7 as claimed: the returned buffer starts with a count equal to the     *)
(* number N of input sequences, followed, per sequence in input order, by  *)
(* its n_alignments word and exactly n_alignments encoded records.         *)
C7_LayoutWithCount ==
    Returned =>
        \E junk \in JunkBytes :
            batch.buf = <<batch.n>> \o Flatten([i \in 1..Len(sams) |-> GroupOf(sams[i], junk)])

(* C7 as amended: the returned buffer holds no count of the sequences: it  *)
(* is, per sequence in input order for which the engine left a list, that  *)
(* sequence's n_alignments word followed by exactly n_alignments encoded   *)
(* records, a sequence without a list contributing nothing; the size       *)
(* reported is 4 bytes per word of it.                                     *)
C7_LayoutNoCount ==
    Returned =>
        /\ \E junk \in JunkBytes :
             batch.buf = Flatten([i \in 1..Len(sams) |-> GroupOrNothing(sams[i], junk)])
        /\ batch.bufSize = 4 * Len(batch.buf)
        /\ Len(sams) = batch.n

\* two sequences, the first unmapped and the second mapped with one CIGAR
\* operation and empty MD and XA: the buffer is 1, flag 4; 1, the record
C7_Witness ==
    /\ Returned
    /\ batch.n = 2
    /\ ~sams[1].null /\ sams[1].list = <<Aln(4, <<>>, 0, 0)>>
    /\ ~sams[2].null /\ sams[2].list = <<Aln(0, Cigar1, 0, 0)>>
    /\ batch.buf = <<1, 4 * 65536 + 60, 1, 60, 1, 100, 2, 30, 7, 1, 160, 0, 0>>

(* C8: a sequence for which the engine left no alignment list still has a  *)
(* count word equal to 0 at its place in the output, so the output holds   *)
(* one group per input sequence.                                           *)
C8_ZeroCountEmitted ==
    Returned =>
        \E junk \in JunkBytes :
            batch.buf = Flatten([i \in 1..Len(sams) |-> GroupOf(sams[i], junk)])

(* C9: on every exit of align_batch after the engine ran, by success or by *)
(* the output buffer not being allocated, every list buffer the engine     *)
(* left has been freed exactly once.                                       *)
C9_ListsReleased ==
    batch.ran => \A i \in 1..Len(sams) : ~sams[i].null => heap[i] = 1

(***************************************************************************)
(* Directory encoder.  A buffer is kept in bytes; a byte malloc handed out *)
(* and nobody wrote is Unwritten.                                          *)
(***************************************************************************)
Unwritten == 0 - 1

\* the bytes of an int32_t on a little-endian host
Int32Bytes(v) == <<v % 256, (v \div 256) % 256, (v \div 65536) % 256, (v \div 16777216) % 256>>

ContigNames == {[i \in 1..n |-> 96 + i] : n \in 0..MaxName}

\* lines 285-293: what is written, the count and then per contig len, name
DirBytes(names) ==
    Int32Bytes(Len(names)) \o
    Flatten([k \in 1..Len(names) |-> Int32Bytes(Len(names[k])) \o names[k]])

\* lines 277-280: 4 + 4*nRefContigs, and strlen(name)+1 for each name
DirBufSize(names) ==
    4 + 4 * Len(names) + SumSeq([k \in 1..Len(names) |-> Len(names[k]) + 1])

(***************************************************************************)
(* jnibwa_getRefContigNames(pIdx, pBufSize).                               *)
(***************************************************************************)
jnibwa_getRefContigNames(names, fault) ==
    IF fault = "malloc" THEN [st |-> "null", buf |-> <<>>, bufSize |-> 0, written |-> 0]
    ELSE LET bufSize == DirBufSize(names)
             bytes   == DirBytes(names)
         IN  [st |-> "ok",
              buf |-> bytes \o [k \in 1..(bufSize - Len(bytes)) |-> Unwritten],
              bufSize |-> bufSize,
              written |-> Len(bytes)]

OtherThanContigs == UNCHANGED <<imageVars, codecVars, batchVars>>

InitContigs ==
    /\ contigs \in SeqsUpTo(ContigNames, MaxContigs)
    /\ dir = NoDir
    /\ InitImage /\ IdleCodec /\ IdleBatch

GetRefContigNames ==
    /\ dir.st = "none"
    /\ \E fault \in {"none", "malloc"} : dir' = jnibwa_getRefContigNames(contigs, fault)
    /\ UNCHANGED contigs
    /\ OtherThanContigs

\* the caller frees the buffer it was given
DestroyDirBuffer ==
    /\ dir.st = "ok"
    /\ dir' = [dir EXCEPT !.st = "freed"]
    /\ UNCHANGED contigs
    /\ OtherThanContigs

NextContigs == GetRefContigNames \/ DestroyDirBuffer

SpecContigs == InitContigs /\ [][NextContigs]_vars

(* C10: the Contig Directory Buffer is exactly a 32-bit count followed,    *)
(* per contig in table order, by a 32-bit name_len and name_len name       *)
(* bytes: the size reported equals 4 + the sum of (4 + name_len), equals   *)
(* the number of bytes written, and no byte of the buffer is unwritten.    *)
C10_DirectoryExact ==
    dir.st \in {"ok", "freed"} =>
        /\ dir.bufSize = 4 + SumSeq([k \in 1..Len(contigs) |-> 4 + Len(contigs[k])])
        /\ dir.bufSize = dir.written
        /\ Len(dir.buf) = dir.bufSize
        /\ \A k \in 1..Len(dir.buf) : dir.buf[k] # Unwritten
=============================================================================
